---- MODULE Spec2Model ----
(***************************************************************************)
(* State-machine model of server.js (LEVEL UP backend): the in-memory user *)
(* directory `users`, the global test ledger `mockTests`, the bearer       *)
(* tokens signed so far, the wall clock, and the last request handled with *)
(* its response.  Every Express handler is one action: Node runs a handler *)
(* to completion before the next request is looked at.                     *)
(*                                                                         *)
(* JavaScript numbers are records [nan, v]: NaN is a value of its own and  *)
(* propagates through the arithmetic, as in the runtime.  Request body     *)
(* fields are JSON values: absent, null, a number, a numeric string, a     *)
(* non-numeric string, the empty string.  Time is counted in days, so two   *)
(* events may read the same clock.  Division is exact; the scores and      *)
(* counts drawn below keep every quotient that is rounded either exact in  *)
(* double precision or away from a half.                                   *)
(***************************************************************************)
EXTENDS Integers, Sequences, FiniteSets, TLC

VARIABLES users, mockTests, tokens, now, req, res

vars == <<users, mockTests, tokens, now, req, res>>

----------------------------------------------------------------------------
(* Bounds *)

MaxTime == 2
MaxTests == 2
MaxTokens == 3
ClockMaxTime == 9
ClockMaxTests == 1
ClockMaxTokens == 2
WeeklyMaxTime == 9
WeeklyMaxTests == 2
WeeklyMaxTokens == 3
BoardMaxTime == 3
BoardMaxTests == 1
BoardMaxTokens == 4
AccuracyMaxTests == 1
AccuracyMaxTime == 2
AccuracyMaxTokens == 2

(* Program constants *)

Week == 7
DefaultAttempted == 120
LeaderboardCap == 20
RecentWindow == 3
RecentTestsShown == 5

----------------------------------------------------------------------------
(* JavaScript values *)

NaN == [nan |-> TRUE, v |-> 0]

Num(n) == [nan |-> FALSE, v |-> n]

Undefined == [k |-> "undefined", v |-> 0]
Null == [k |-> "null", v |-> 0]
JNum(n) == [k |-> "number", v |-> n]
NumStr(n) == [k |-> "numstr", v |-> n]
Junk == [k |-> "junk", v |-> 0]
EmptyStr == [k |-> "empty", v |-> 0]
Str(n) == [k |-> "string", v |-> n]

\* !x
Falsy(x) ==
    \/ x.k \in {"undefined", "null", "empty"}
    \/ x.k = "number" /\ x.v = 0

\* parseInt(x): the leading integer of String(x), NaN when there is none
parseInt(x) ==
    IF x.k \in {"number", "numstr"} THEN Num(x.v) ELSE NaN

\* ToNumber(x), the coercion `>` and `/` apply to their operands
ToNumber(x) ==
    CASE x.k \in {"number", "numstr"} -> Num(x.v)
      [] x.k \in {"null", "empty"} -> Num(0)
      [] OTHER -> NaN

\* a || b on numbers: NaN and 0 are falsy
OrElse(a, b) == IF a.nan \/ a.v = 0 THEN b ELSE a

\* a > 0
GtZero(a) == ~a.nan /\ a.v > 0

\* a + b
Add(a, b) == IF a.nan \/ b.nan THEN NaN ELSE Num(a.v + b.v)

\* Math.max(a, b)
MathMax(a, b) ==
    IF a.nan \/ b.nan THEN NaN ELSE IF a.v >= b.v THEN a ELSE b

\* Math.floor in place of Math.round
RoundDivFloor(p, q) == p \div q

\* Math.round(p / q) for integers p, q with q > 0: floor(p/q + 1/2)
RoundDiv(p, q) == (2 * p + q) \div (2 * q)

\* Math.round(a / n) for a number a and a positive integer n
MathRoundDiv(a, n) == IF a.nan THEN NaN ELSE Num(RoundDiv(a.v, n))

\* Number.prototype.toString / Date.now().toString(): the decimal digits
RECURSIVE Digits(_)
Digits(n) == IF n < 10 THEN <<n>> ELSE Append(Digits(n \div 10), n % 10)

toString(n) == Digits(n)

----------------------------------------------------------------------------
(* Sequence helpers: Array.prototype.reduce / slice / reverse *)

\* tests.reduce((sum, t) => sum + t.score, 0)
RECURSIVE SumScores(_)
SumScores(tests) ==
    IF tests = <<>> THEN Num(0)
    ELSE Add(SumScores(SubSeq(tests, 1, Len(tests) - 1)), tests[Len(tests)].score)

\* s.slice(-n)
SliceLast(s, n) == SubSeq(s, IF Len(s) > n THEN Len(s) - n + 1 ELSE 1, Len(s))

\* s.slice(0, n)
SliceFirst(s, n) == SubSeq(s, 1, IF n < Len(s) THEN n ELSE Len(s))

Reverse(s) == [i \in 1..Len(s) |-> s[Len(s) + 1 - i]]

RECURSIVE SeqSum(_)
SeqSum(s) == IF s = <<>> THEN 0 ELSE Head(s) + SeqSum(Tail(s))

MaxOf(a, b) == IF a >= b THEN a ELSE b

----------------------------------------------------------------------------
(* The identity provider's profiles, and the tokens in circulation *)

Profile(sub, mails, name, pics) ==
    [id |-> sub, emails |-> mails, displayName |-> name, photos |-> pics]

Asha == Profile("g-asha", <<"asha@example.org">>, "Asha", <<"asha.png">>)
Bilal == Profile("g-bilal", <<"bilal@example.org">>, "Bilal", <<"bilal.png">>)
Chen == Profile("g-chen", <<"chen@example.org">>, "Chen", <<"chen.png">>)
\* a profile the provider returned without an e-mail address
NoMail == Profile("g-nomail", <<>>, "Nomail", <<"n.png">>)

\* jwt.sign({id, email, role}, JWT_SECRET, {expiresIn: '7d'}) at time t
SignToken(user, t) ==
    [id |-> user.id, email |-> user.email, role |-> user.role, iat |-> t]

\* a token signed by an earlier run of the process: its user is not in
\* the directory of this run
StaleToken ==
    [id |-> toString(0), email |-> "old@example.org", role |-> "student", iat |-> 0]

NoClaims == [id |-> <<>>, email |-> "", role |-> "", iat |-> 0]

\* Authorization headers a client may send
NoHeader == [kind |-> "none", sigok |-> FALSE, claims |-> NoClaims]
SchemeOnly == [kind |-> "scheme-only", sigok |-> FALSE, claims |-> NoClaims]
Bearer(t) == [kind |-> "bearer", sigok |-> TRUE, claims |-> t]
Tampered(t) == [kind |-> "bearer", sigok |-> FALSE, claims |-> t]

AuthHeaders ==
    {NoHeader, SchemeOnly, Tampered(StaleToken)} \cup {Bearer(t) : t \in tokens}

\* jwt.verify told to ignore the expiry
authenticateTokenNoExpiry(h) ==
    IF h.kind # "bearer" THEN [status |-> 401, user |-> NoClaims]
    ELSE IF ~h.sigok THEN [status |-> 403, user |-> NoClaims]
    ELSE [status |-> 200, user |-> h.claims]

\* authenticateToken: 401 without a token, 403 when jwt.verify reports an
\* error (bad signature, or the clock has reached exp = iat + 7d), else next()
authenticateToken(h) ==
    IF h.kind # "bearer" THEN [status |-> 401, user |-> NoClaims]
    ELSE IF ~h.sigok \/ now >= h.claims.iat + Week THEN [status |-> 403, user |-> NoClaims]
    ELSE [status |-> 200, user |-> h.claims]

----------------------------------------------------------------------------
(* State after construction *)

NoBody == [testName |-> Undefined, score |-> Undefined, attempted |-> Undefined,
           correct |-> Undefined, incorrect |-> Undefined]

Request(route, h, body, param) ==
    [route |-> route, auth |-> h, body |-> body, param |-> param]

Response(status, body) == [status |-> status, body |-> body]

Init ==
    /\ users = <<>>
    /\ mockTests = <<>>
    /\ tokens = {StaleToken}
    /\ now = 1
    /\ req = Request("none", NoHeader, NoBody, "")
    /\ res = Response(0, "")

----------------------------------------------------------------------------
(* GoogleStrategy verify callback and GET /auth/google/callback *)

NewUser(profile) ==
    [id |-> toString(now),
     googleId |-> profile.id,
     email |-> profile.emails[1],
     name |-> profile.displayName,
     avatar |-> profile.photos[1],
     role |-> "student",
     mockTests |-> <<>>,
     totalTests |-> 0,
     averageScore |-> Num(0),
     bestScore |-> Num(0),
     joinedDate |-> now,
     lastLogin |-> now]

\* users.find(u => u.googleId === sub): the index of the first match, 0 when
\* there is none
FindByGoogleId(sub) ==
    IF \E i \in 1..Len(users) : users[i].googleId = sub
    THEN CHOOSE i \in 1..Len(users) :
             /\ users[i].googleId = sub
             /\ \A j \in 1..(i - 1) : users[j].googleId # sub
    ELSE 0

\* users.find(u => u.id === id)
FindById(id) ==
    IF \E i \in 1..Len(users) : users[i].id = id
    THEN CHOOSE i \in 1..Len(users) :
             /\ users[i].id = id
             /\ \A j \in 1..(i - 1) : users[j].id # id
    ELSE 0

\* the lookup by provider id left out: every login registers a user
UpsertAlwaysAppend(profile) == Append(users, NewUser(profile))

\* the users array after the verify callback has run for `profile`
Upsert(profile) ==
    LET i == FindByGoogleId(profile.id) IN
    IF i = 0 THEN Append(users, NewUser(profile))
    ELSE [users EXCEPT ![i].lastLogin = now]

\* profile.emails[0].value / profile.photos[0].value throw on an empty list;
\* the exception is caught and handed to done(error, null)
VerifyThrows(profile) ==
    /\ FindByGoogleId(profile.id) = 0
    /\ profile.emails = <<>> \/ profile.photos = <<>>

Login(profile, maxTokens) ==
    /\ req' = Request("GET /auth/google/callback", NoHeader, NoBody, profile.id)
    /\ IF VerifyThrows(profile)
       THEN /\ res' = Response(500, "OAuth error")
            /\ UNCHANGED <<users, tokens>>
       ELSE LET i == FindByGoogleId(profile.id)
                user == IF i = 0 THEN NewUser(profile) ELSE users[i]
                token == SignToken(user, now)
            IN /\ token \in tokens \/ Cardinality(tokens) < maxTokens
               /\ users' = Upsert(profile)
               /\ tokens' = tokens \cup {token}
               /\ res' = Response(302, token)
    /\ UNCHANGED <<mockTests, now>>

\* the provider denies the handshake: failureRedirect, the verify callback
\* does not run
LoginDenied ==
    /\ req' = Request("GET /auth/google/callback", NoHeader, NoBody, "denied")
    /\ res' = Response(302, "error=auth_failed")
    /\ UNCHANGED <<users, mockTests, tokens, now>>

\* the wall clock
Tick(maxTime) ==
    /\ now < maxTime
    /\ \E t \in (now + 1)..maxTime : now' = t
    /\ UNCHANGED <<users, mockTests, tokens, req, res>>

----------------------------------------------------------------------------
(* Analytics helpers *)

\* the index windows calculateImprovement compares: tests.slice(-3) and
\* tests.slice(0, Math.max(1, tests.length - 3))
RecentIdx(tests) == (MaxOf(Len(tests) - RecentWindow, 0) + 1)..Len(tests)

EarlierIdx(tests) == 1..MaxOf(1, Len(tests) - RecentWindow)

calculateImprovement(tests) ==
    IF Len(tests) < 2 THEN Num(0)
    ELSE LET recent == SliceLast(tests, RecentWindow)
             earlier == SliceFirst(tests, MaxOf(1, Len(tests) - RecentWindow))
             r == SumScores(recent)
             e == SumScores(earlier)
         IN IF Len(earlier) = 0 THEN Num(0)
            ELSE IF r.nan \/ e.nan THEN NaN
            ELSE \* Math.round(r/|recent| - e/|earlier|)
                 Num(RoundDiv(r.v * Len(earlier) - e.v * Len(recent),
                              Len(recent) * Len(earlier)))

\* the population standard deviation s satisfies s < d exactly when
\* sum((n*score - total)^2) < d^2 * n^3
RECURSIVE SumSqDev(_, _, _)
SumSqDev(tests, n, total) ==
    IF tests = <<>> THEN 0
    ELSE (n * Head(tests).score.v - total) * (n * Head(tests).score.v - total)
         + SumSqDev(Tail(tests), n, total)

calculateConsistency(tests) ==
    IF Len(tests) < 3 THEN "Insufficient Data"
    ELSE LET n == Len(tests)
             total == SumScores(tests)
             below(d) == ~total.nan /\ SumSqDev(tests, n, total.v) < d * d * n * n * n
         IN IF below(5) THEN "Very Consistent"
            ELSE IF below(10) THEN "Consistent"
            ELSE IF below(15) THEN "Moderately Consistent"
            ELSE "Needs Focus"

\* the window compared with > in place of >=
calculateWeeklyProgressStrict(tests, t) ==
    IF Len(tests) < 2 THEN <<>>
    ELSE LET oneWeekAgo == t - Week
             recentTests == SelectSeq(tests, LAMBDA test : test.date > oneWeekAgo)
         IN [i \in 1..Len(recentTests) |->
                [date |-> recentTests[i].date,
                 score |-> recentTests[i].score,
                 testName |-> recentTests[i].testName]]

\* evaluated at clock reading t
calculateWeeklyProgress(tests, t) ==
    IF Len(tests) < 2 THEN <<>>
    ELSE LET oneWeekAgo == t - Week
             recentTests == SelectSeq(tests, LAMBDA test : test.date >= oneWeekAgo)
         IN [i \in 1..Len(recentTests) |->
                [date |-> recentTests[i].date,
                 score |-> recentTests[i].score,
                 testName |-> recentTests[i].testName]]

Analytics(user) ==
    [totalTests |-> user.totalTests,
     averageScore |-> user.averageScore,
     bestScore |-> user.bestScore,
     recentTests |-> Reverse(SliceLast(user.mockTests, RecentTestsShown)),
     improvement |-> calculateImprovement(user.mockTests),
     consistency |-> calculateConsistency(user.mockTests),
     weeklyProgress |-> calculateWeeklyProgress(user.mockTests, now)]

----------------------------------------------------------------------------
(* POST /api/mock-test *)

\* Math.round((correct / attempted) * 100) on the raw body fields, for
\* attempted > 0
Percent(correct, attempted) ==
    IF ToNumber(correct).nan THEN NaN
    ELSE Num(RoundDiv(100 * ToNumber(correct).v, ToNumber(attempted).v))

NewTest(body) ==
    [id |-> toString(now),
     testName |-> body.testName,
     score |-> parseInt(body.score),
     attempted |-> OrElse(parseInt(body.attempted), Num(DefaultAttempted)),
     correct |-> OrElse(parseInt(body.correct), Num(0)),
     incorrect |-> OrElse(parseInt(body.incorrect), Num(0)),
     date |-> now,
     accuracy |-> IF GtZero(ToNumber(body.attempted))
                  THEN Percent(body.correct, body.attempted)
                  ELSE Num(0)]

\* the user record after the handler has pushed `test` and recomputed
RecordTest(user, test) ==
    LET history == Append(user.mockTests, test)
        total == user.totalTests + 1
    IN [user EXCEPT !.mockTests = history,
                    !.totalTests = total,
                    !.averageScore = MathRoundDiv(SumScores(history), total),
                    !.bestScore = MathMax(user.bestScore, test.score)]

\* the ledger copy tagged with the test's id in place of the user's
LedgerEntryTestId(user, test) ==
    [id |-> test.id, testName |-> test.testName, score |-> test.score,
     attempted |-> test.attempted, correct |-> test.correct,
     incorrect |-> test.incorrect, date |-> test.date, accuracy |-> test.accuracy,
     userId |-> Append(test.id, 0), userEmail |-> user.email, userName |-> user.name]

LedgerEntry(user, test) ==
    [id |-> test.id, testName |-> test.testName, score |-> test.score,
     attempted |-> test.attempted, correct |-> test.correct,
     incorrect |-> test.incorrect, date |-> test.date, accuracy |-> test.accuracy,
     userId |-> user.id, userEmail |-> user.email, userName |-> user.name]

\* the check of score left out
InvalidBodyNameOnly(body) == Falsy(body.testName)

InvalidBody(body) == Falsy(body.testName) \/ body.score = Undefined

\* the status the route answers with
MockTestStatus(h, body) ==
    LET a == authenticateToken(h) IN
    IF a.status # 200 THEN a.status
    ELSE IF InvalidBody(body) THEN 400
    ELSE IF FindById(a.user.id) = 0 THEN 404
    ELSE 200

PostMockTest(h, body, room) ==
    LET status == MockTestStatus(h, body) IN
    /\ status = 200 => room
    /\ req' = Request("POST /api/mock-test", h, body, "")
    /\ IF status # 200
       THEN /\ res' = Response(status, "error")
            /\ UNCHANGED <<users, mockTests>>
       ELSE LET i == FindById(authenticateToken(h).user.id)
                newTest == NewTest(body)
                user == RecordTest(users[i], newTest)
            IN /\ users' = [users EXCEPT ![i] = user]
               /\ mockTests' = Append(mockTests, LedgerEntry(user, newTest))
               /\ res' = Response(200,
                     [success |-> TRUE,
                      user |-> [id |-> user.id, name |-> user.name,
                                email |-> user.email,
                                totalTests |-> user.totalTests,
                                averageScore |-> user.averageScore,
                                bestScore |-> user.bestScore],
                      test |-> newTest])
    /\ UNCHANGED <<tokens, now>>

----------------------------------------------------------------------------
(* GET /api/user, GET /api/analytics *)

WithoutGoogleId(user) == [f \in DOMAIN user \ {"googleId"} |-> user[f]]

ReadStatus(h) ==
    LET a == authenticateToken(h) IN
    IF a.status # 200 THEN a.status
    ELSE IF FindById(a.user.id) = 0 THEN 404
    ELSE 200

GetUser(h) ==
    /\ req' = Request("GET /api/user", h, NoBody, "")
    /\ res' = IF ReadStatus(h) # 200 THEN Response(ReadStatus(h), "error")
              ELSE Response(200, WithoutGoogleId(users[FindById(h.claims.id)]))
    /\ UNCHANGED <<users, mockTests, tokens, now>>

GetAnalytics(h) ==
    /\ req' = Request("GET /api/analytics", h, NoBody, "")
    /\ res' = IF ReadStatus(h) # 200 THEN Response(ReadStatus(h), "error")
              ELSE Response(200, Analytics(users[FindById(h.claims.id)]))
    /\ UNCHANGED <<users, mockTests, tokens, now>>

----------------------------------------------------------------------------
(* GET /api/leaderboard *)

\* (a, b) => b.averageScore - a.averageScore; sort reads a NaN result as 0
Compare(a, b) ==
    IF a.averageScore.nan \/ b.averageScore.nan THEN 0
    ELSE b.averageScore.v - a.averageScore.v

\* a consistent comparator in the sense of Array.prototype.sort
Consistent(s) ==
    \A i, j, k \in 1..Len(s) :
        /\ Compare(s[i], s[j]) = 0 /\ Compare(s[j], s[k]) = 0 => Compare(s[i], s[k]) = 0
        /\ Compare(s[i], s[j]) < 0 /\ Compare(s[j], s[k]) < 0 => Compare(s[i], s[k]) < 0
        /\ Compare(s[i], s[j]) > 0 /\ Compare(s[j], s[k]) > 0 => Compare(s[i], s[k]) > 0

Orders(n) == {p \in [1..n -> 1..n] : \A i, j \in 1..n : i # j => p[i] # p[j]}

\* the stable order: ascending by the comparator, ties in array order
StableOrder(s, p) ==
    \A i, j \in 1..Len(s) :
        i < j => \/ Compare(s[p[i]], s[p[j]]) < 0
                 \/ Compare(s[p[i]], s[p[j]]) = 0 /\ p[i] < p[j]

\* the arrays s.sort(Compare) may produce: the stable order when the
\* comparator is consistent on s, an implementation-defined order otherwise
SortResults(s) ==
    {[i \in 1..Len(s) |-> s[p[i]]] :
        p \in {q \in Orders(Len(s)) : Consistent(s) => StableOrder(s, q)}}

LeaderboardOf(sorted) ==
    LET top == SliceFirst(sorted, LeaderboardCap) IN
    [i \in 1..Len(top) |->
        [rank |-> i, name |-> top[i].name, email |-> top[i].email,
         score |-> top[i].averageScore, tests |-> top[i].totalTests,
         bestScore |-> top[i].bestScore, lastActive |-> top[i].lastLogin]]

GetLeaderboard ==
    /\ req' = Request("GET /api/leaderboard", NoHeader, NoBody, "")
    /\ \E sorted \in SortResults(SelectSeq(users, LAMBDA u : u.totalTests > 0)) :
           res' = Response(200, LeaderboardOf(sorted))
    /\ UNCHANGED <<users, mockTests, tokens, now>>

----------------------------------------------------------------------------
(* The server *)

Body(name, score, attempted, correct) ==
    [testName |-> name, score |-> score, attempted |-> attempted,
     correct |-> correct, incorrect |-> Undefined]

Server(profiles, bodies, maxTime, maxTests, maxTokens) ==
    \/ \E p \in profiles : Login(p, maxTokens)
    \/ LoginDenied
    \/ Tick(maxTime)
    \/ \E h \in AuthHeaders, b \in bodies : PostMockTest(h, b, Len(mockTests) < maxTests)
    \/ \E h \in AuthHeaders : GetUser(h)
    \/ \E h \in AuthHeaders : GetAnalytics(h)
    \/ GetLeaderboard

\* two students and a malformed profile; every way a submission is refused
\* and scores that are negative, zero-free, odd-summed and non-numeric
Profiles == {Asha, Bilal, NoMail}

Bodies ==
    {Body(Undefined, JNum(60), Undefined, Undefined),
     Body(EmptyStr, JNum(60), Undefined, Undefined),
     Body(Str(1), Undefined, Undefined, Undefined)}
    \cup {Body(Str(1), s, Undefined, Undefined) : s \in {JNum(-5), JNum(60), Junk}}

Next == Server(Profiles, Bodies, MaxTime, MaxTests, MaxTokens)

Spec == Init /\ [][Next]_vars

\* one student over a clock that runs past a week: token expiry
ClockProfiles == {Asha}

ClockBodies ==
    {Body(Str(1), Undefined, Undefined, Undefined),
     Body(Str(1), JNum(60), Undefined, Undefined)}

NextClock == Server(ClockProfiles, ClockBodies, ClockMaxTime, ClockMaxTests, ClockMaxTokens)

SpecClock == Init /\ [][NextClock]_vars

\* one student submitting and reading analytics over a clock that runs past
\* a week: the weekly window
WeeklyBodies == {Body(Str(1), JNum(60), Undefined, Undefined)}

NextWeekly ==
    \/ \E p \in ClockProfiles : Login(p, WeeklyMaxTokens)
    \/ Tick(WeeklyMaxTime)
    \/ \E t \in tokens, b \in WeeklyBodies :
           PostMockTest(Bearer(t), b, Len(mockTests) < WeeklyMaxTests)
    \/ \E t \in tokens : GetAnalytics(Bearer(t))

SpecWeekly == Init /\ [][NextWeekly]_vars

\* three students, each submitting up to BoardMaxTests tests: the
\* leaderboard order
BoardProfiles == {Asha, Bilal, Chen}

BoardBodies == {Body(Str(1), s, Undefined, Undefined) : s \in {JNum(50), JNum(90), Junk}}

NextBoard ==
    \/ \E p \in BoardProfiles : Login(p, BoardMaxTokens)
    \/ Tick(BoardMaxTime)
    \/ \E t \in tokens, b \in BoardBodies :
           PostMockTest(Bearer(t), b,
               \A i \in 1..Len(users) : users[i].id = t.id => users[i].totalTests < BoardMaxTests)
    \/ GetLeaderboard

SpecBoard == Init /\ [][NextBoard]_vars

\* one student, every shape of attempted and correct
AccuracyBodies ==
    {Body(Str(1), JNum(60), a, c) :
        a \in {Undefined, Null, Junk, JNum(0), JNum(80), NumStr(80)},
        c \in {Undefined, Null, Junk, JNum(0), JNum(60), NumStr(60)}}

NextAccuracy == Server(ClockProfiles, AccuracyBodies, AccuracyMaxTime, AccuracyMaxTests, AccuracyMaxTokens)

SpecAccuracy == Init /\ [][NextAccuracy]_vars

----------------------------------------------------------------------------
(* Vocabulary of the properties *)

CallbackRoute == "GET /auth/google/callback"
MockTestRoute == "POST /api/mock-test"
UserRoute == "GET /api/user"
AnalyticsRoute == "GET /api/analytics"
LeaderboardRoute == "GET /api/leaderboard"

ProtectedRoutes == {UserRoute, MockTestRoute, AnalyticsRoute}

\* the step is the handling of a request on `route` (the clock stands still
\* while a handler runs; every handler records its request)
Handled(route) == now' = now /\ req'.route = route

\* the step is an accepted submission
Accepted == Handled(MockTestRoute) /\ res'.status = 200

\* r is p/q rounded to the nearest integer, halves upwards (Math.round)
IsRounded(r, p, q) == 2 * p - q < 2 * r * q /\ 2 * r * q <= 2 * p + q

\* a < b on numbers: false when either is NaN
Lt(a, b) == ~a.nan /\ ~b.nan /\ a.v < b.v

AnyNaN(tests) == \E i \in 1..Len(tests) : tests[i].score.nan

PlainSum(tests) == SeqSum([i \in 1..Len(tests) |-> tests[i].score.v])

IsPrefix(s, t) == Len(s) <= Len(t) /\ SubSeq(t, 1, Len(s)) = s

UsersUnchanged == UNCHANGED <<users, mockTests, tokens>>

----------------------------------------------------------------------------
\* C1: in every state every user has totalTests equal to the length of the
\* test history and averageScore equal to the rounded mean of the scores in
\* it (0 for an empty history, NaN when a recorded score is NaN); there is
\* no state with the history appended and the aggregates stale.
C1_AggregatesMatchHistory ==
    \A i \in 1..Len(users) :
        LET u == users[i]
            n == Len(u.mockTests)
        IN /\ u.totalTests = n
           /\ n = 0 => u.averageScore = Num(0)
           /\ n > 0 /\ AnyNaN(u.mockTests) => u.averageScore.nan
           /\ n > 0 /\ ~AnyNaN(u.mockTests) =>
                  /\ ~u.averageScore.nan
                  /\ IsRounded(u.averageScore.v, PlainSum(u.mockTests), n)

\* a user with two numeric scores whose mean ends in one half
C1_Witness ==
    \E i \in 1..Len(users) :
        /\ Len(users[i].mockTests) = 2
        /\ ~AnyNaN(users[i].mockTests)
        /\ PlainSum(users[i].mockTests) % 2 = 1
        /\ users[i].totalTests = 2

----------------------------------------------------------------------------
\* Math.max over the recorded scores
RECURSIVE MaxScore(_)
MaxScore(tests) ==
    IF Len(tests) = 1 THEN tests[1].score
    ELSE MathMax(MaxScore(SubSeq(tests, 1, Len(tests) - 1)), tests[Len(tests)].score)

\* C2: once a user has a recorded test, bestScore is the maximum of the
\* recorded scores, whatever their sign, and bestScore never decreases.
C2_BestScoreIsMax ==
    /\ [](\A i \in 1..Len(users) :
            Len(users[i].mockTests) > 0 =>
                users[i].bestScore = MaxScore(users[i].mockTests))
    /\ [][\A i \in 1..Len(users) : ~Lt(users'[i].bestScore, users[i].bestScore)]_vars

----------------------------------------------------------------------------
\* the submission was recorded: one more test for the token's user, one
\* more ledger entry
Recorded ==
    LET i == FindById(req'.auth.claims.id) IN
    /\ Len(mockTests') = Len(mockTests) + 1
    /\ Len(users'[i].mockTests) = Len(users[i].mockTests) + 1

C3_Outcome(lacks) ==
    Handled(MockTestRoute) /\ authenticateToken(req'.auth).status = 200 =>
        LET known == FindById(req'.auth.claims.id) # 0 IN
        /\ lacks => res'.status = 400 /\ UNCHANGED <<users, mockTests>>
        /\ ~lacks /\ ~known => res'.status = 404 /\ UNCHANGED <<users, mockTests>>
        /\ ~lacks /\ known => res'.status = 200 /\ Recorded

\* C3 as stated: an authenticated submission is refused with 400 when
\* testName or score is absent from the body, with 404 when the token's user
\* is unknown, each time leaving users and ledger alone; every submission
\* with testName present and score defined for a known user is accepted and
\* recorded.
C3_PresentNameAccepted ==
    [][C3_Outcome(req'.body.testName = Undefined \/ req'.body.score = Undefined)]_vars

\* C3, amended: the same with "lacks testName" read as: testName is absent
\* or falsy (the empty string, null, 0).
C3_TruthyNameAccepted ==
    [][C3_Outcome(\/ req'.body.testName.k \in {"undefined", "null", "empty"}
                  \/ req'.body.testName = JNum(0)
                  \/ req'.body.score.k = "undefined")]_vars

\* a well-formed submission under a valid token whose user is not in the
\* directory was answered 404
C3_Witness ==
    /\ req.route = MockTestRoute
    /\ req.auth.kind = "bearer" /\ req.auth.sigok
    /\ req.body.testName = Str(1) /\ req.body.score # Undefined
    /\ res.status = 404

----------------------------------------------------------------------------
\* C4: the recorded accuracy is round(correct / attempted * 100) for
\* attempted > 0 and 0 otherwise, where attempted counts as 120 and correct
\* as 0 when the submitted value is absent or not numeric.
C4_AccuracyUsesDefaults ==
    [][Accepted =>
        LET b == req'.body
            t == res'.body.test
            numeric(x) == x.k \in {"number", "numstr"}
            att == IF numeric(b.attempted) THEN b.attempted.v ELSE DefaultAttempted
            cor == IF numeric(b.correct) THEN b.correct.v ELSE 0
        IN /\ ~t.accuracy.nan
           /\ IF att > 0 THEN IsRounded(t.accuracy.v, 100 * cor, att)
              ELSE t.accuracy.v = 0]_vars

----------------------------------------------------------------------------
\* C5: calculateImprovement is 0 for a history of at most 3 tests, else the
\* rounded difference between the mean of the last 3 scores and the mean of
\* the scores before them; the two windows share no test.
C5_ImprovementWindowsDisjoint ==
    \A i \in 1..Len(users) :
        LET tests == users[i].mockTests
            n == Len(tests)
            last3 == SubSeq(tests, n - 2, n)
            before == SubSeq(tests, 1, n - 3)
            got == calculateImprovement(tests)
        IN /\ n >= 2 => RecentIdx(tests) \cap EarlierIdx(tests) = {}
           /\ n <= 3 => got = Num(0)
           /\ n > 3 /\ AnyNaN(tests) => got.nan
           /\ n > 3 /\ ~AnyNaN(tests) =>
                  /\ ~got.nan
                  /\ IsRounded(got.v,
                               PlainSum(last3) * (n - 3) - PlainSum(before) * 3,
                               3 * (n - 3))

----------------------------------------------------------------------------
\* the tests of the trailing 7 days, by index
InWeek(tests, t) == {i \in 1..Len(tests) : t - tests[i].date <= Week}

\* the k-th smallest member of a set of indices
Nth(S, k) == CHOOSE i \in S : Cardinality({j \in S : j < i}) = k - 1

\* wp lists exactly the tests of the trailing 7 days, as {date, score,
\* testName}, in submission order
IsWeekly(wp, tests, t) ==
    /\ Len(wp) = Cardinality(InWeek(tests, t))
    /\ \A k \in 1..Len(wp) :
           LET test == tests[Nth(InWeek(tests, t), k)] IN
           /\ DOMAIN wp[k] = {"date", "score", "testName"}
           /\ wp[k].date = test.date
           /\ wp[k].score = test.score
           /\ wp[k].testName = test.testName

\* C6 as stated: for a history of any length, one test included,
\* calculateWeeklyProgress returns exactly the tests of the trailing 7
\* days, in submission order.
C6_WeeklyAnyLength ==
    \A i \in 1..Len(users) :
        IsWeekly(calculateWeeklyProgress(users[i].mockTests, now), users[i].mockTests, now)

\* C6, amended: for a history of at least 2 tests calculateWeeklyProgress
\* returns exactly the tests of the trailing 7 days, in submission order; for
\* a shorter history it returns the empty list.
C6_WeeklyFromTwoTests ==
    \A i \in 1..Len(users) :
        LET tests == users[i].mockTests
            wp == calculateWeeklyProgress(tests, now)
        IN IF Len(tests) < 2 THEN wp = <<>> ELSE IsWeekly(wp, tests, now)

\* the analytics just served list one of two tests: the other is older than
\* a week
C6_Witness ==
    /\ req.route = AnalyticsRoute
    /\ res.status = 200
    /\ \E i \in 1..Len(users) :
           /\ users[i].id = req.auth.claims.id
           /\ Len(users[i].mockTests) = 2
           /\ res.body.weeklyProgress = calculateWeeklyProgress(users[i].mockTests, now)
           /\ Len(res.body.weeklyProgress) = 1
           /\ now - users[i].mockTests[1].date > Week

----------------------------------------------------------------------------
\* C7: the leaderboard has at most 20 entries, lists only users with
\* totalTests > 0, ranks them 1, 2, ... with no entry scoring higher than an
\* entry before it, and leaves out no user with tests who scores higher
\* than a listed one.
C7_LeaderboardOrdered ==
    [][Handled(LeaderboardRoute) =>
        LET lb == res'.body
            active == {i \in 1..Len(users) : users[i].totalTests > 0}
            listed == {i \in active : \E k \in 1..Len(lb) : lb[k].email = users[i].email}
        IN /\ Len(lb) <= LeaderboardCap
           /\ Len(lb) = IF Cardinality(active) < LeaderboardCap
                        THEN Cardinality(active) ELSE LeaderboardCap
           /\ \A k \in 1..Len(lb) :
                  /\ lb[k].rank = k
                  /\ lb[k].tests > 0
                  /\ \E i \in active : /\ lb[k].email = users[i].email
                                       /\ lb[k].score = users[i].averageScore
                                       /\ lb[k].tests = users[i].totalTests
           /\ \A k, m \in 1..Len(lb) : k < m => ~Lt(lb[k].score, lb[m].score)
           /\ \A i \in active \ listed :
                  \A k \in 1..Len(lb) : ~Lt(lb[k].score, users[i].averageScore)]_vars

----------------------------------------------------------------------------
\* C8: on the bearer-protected routes a request without a bearer token is
\* answered 401 and one whose token has a bad signature or was issued more
\* than 7 days ago is answered 403, users, ledger and tokens staying as
\* they were; the read routes change none of them in any case.
C8_RejectsWithoutSideEffect ==
    [][\A route \in ProtectedRoutes :
        Handled(route) =>
            LET h == req'.auth IN
            /\ h.kind # "bearer" => res'.status = 401 /\ UsersUnchanged
            /\ h.kind = "bearer" /\ (~h.sigok \/ now - h.claims.iat > Week) =>
                   res'.status = 403 /\ UsersUnchanged
            /\ route # MockTestRoute => UsersUnchanged]_vars

\* a submission under a genuine token issued more than a week ago was
\* answered 403
C8_Witness ==
    /\ req.route = MockTestRoute
    /\ req.auth.kind = "bearer" /\ req.auth.sigok
    /\ req.auth.claims # StaleToken
    /\ res.status = 403

----------------------------------------------------------------------------
LoginSucceeded ==
    Handled(CallbackRoute) /\ res'.status = 302 /\ req'.param # "denied"

\* C9: a successful login appends one zeroed student when the provider id is
\* new and otherwise changes nothing but that user's lastLogin; no two users
\* share a provider id; users are never removed or reordered.
C9_LoginIsUpsert ==
    /\ [](\A i, j \in 1..Len(users) : users[i].googleId = users[j].googleId => i = j)
    /\ [][/\ Len(users') >= Len(users)
          /\ \A i \in 1..Len(users) : /\ users'[i].id = users[i].id
                                      /\ users'[i].googleId = users[i].googleId
          /\ LoginSucceeded =>
                IF \A i \in 1..Len(users) : users[i].googleId # req'.param
                THEN /\ users' = Append(users, users'[Len(users')])
                     /\ LET u == users'[Len(users')] IN
                        /\ u.googleId = req'.param
                        /\ u.role = "student"
                        /\ u.mockTests = <<>>
                        /\ u.totalTests = 0
                        /\ u.averageScore = Num(0)
                        /\ u.bestScore = Num(0)
                ELSE /\ Len(users') = Len(users)
                     /\ \A i \in 1..Len(users) :
                            IF users[i].googleId = req'.param
                            THEN users'[i] = [users[i] EXCEPT !.lastLogin = users'[i].lastLogin]
                            ELSE users'[i] = users[i]]_vars

\* a student with a test on record has logged in again on a later day
C9_Witness ==
    /\ Len(users) >= 1
    /\ users[1].lastLogin > users[1].joinedDate
    /\ users[1].totalTests > 0
    /\ req.route = CallbackRoute /\ req.param = users[1].googleId

----------------------------------------------------------------------------
\* C10: an accepted submission appends one test to the history of the user
\* the token identifies and one copy of it, with that user's id, email and
\* name, to the end of the ledger, and touches no other user; the ledger is
\* as long as the sum of totalTests; recorded tests and ledger entries are
\* never modified or removed.
C10_AppendOnlyLedger ==
    /\ [](Len(mockTests) = SeqSum([i \in 1..Len(users) |-> users[i].totalTests]))
    /\ [][/\ IsPrefix(mockTests, mockTests')
          /\ \A i \in 1..Len(users) : IsPrefix(users[i].mockTests, users'[i].mockTests)
          /\ Accepted =>
                LET i == FindById(req'.auth.claims.id)
                    t == res'.body.test
                    e == mockTests'[Len(mockTests')]
                IN /\ i # 0
                   /\ Len(users') = Len(users)
                   /\ users'[i].mockTests = Append(users[i].mockTests, t)
                   /\ \A j \in 1..Len(users) : j # i => users'[j] = users[j]
                   /\ mockTests' = Append(mockTests, e)
                   /\ DOMAIN e = DOMAIN t \cup {"userId", "userEmail", "userName"}
                   /\ \A f \in DOMAIN t : e[f] = t[f]
                   /\ e.userId = users[i].id
                   /\ e.userEmail = users[i].email
                   /\ e.userName = users[i].name]_vars

\* two students have one recorded test each
C10_Witness ==
    /\ Len(mockTests) = 2
    /\ mockTests[1].userId # mockTests[2].userId
    /\ Len(users) = 2
    /\ users[1].totalTests = 1 /\ users[2].totalTests = 1

====
